---- MODULE Spec2Model ----
(***************************************************************************)
(* Model of freesound.py, a command-line downloader: for every input URL   *)
(* main validates the domain, fetches and parses the page                  *)
(* (extract_sound_info), builds the list of requested formats and          *)
(* downloads each one (download_file).                                     *)
(*                                                                         *)
(* Python strings are sequences of one-character strings, so that          *)
(* replace, strip, re.sub, "in" and the f-string of the file name are      *)
(* computed character by character.  Python's None is the value None       *)
(* below, which differs from every string.                                 *)
(***************************************************************************)
EXTENDS Integers, Sequences, FiniteSets, TLC

VARIABLES urls, argv, args, pc, idx, page, info, formats, k, success_count,
          fail_count, files, fetched, last, raised, console, arg, ret

vars == <<urls, argv, args, pc, idx, page, info, formats, k, success_count,
          fail_count, files, fetched, last, raised, console, arg, ret>>

mainVars == <<urls, argv, args, idx, page, info, formats, k, success_count,
              fail_count, files, fetched, last, raised, console>>

(***************************************************************************)
(* Bounds of the model.                                                    *)
(***************************************************************************)
\* longest list of input URLs
MaxUrls == 2
\* most elements on a fetched page
MaxElems == 2
\* most bytes of a response body, and most chunks it is delivered in
MaxBytes == 2
\* largest Content-Length a server reports
MaxTotal == 2
\* longest title handed to sanitize_filename
MaxTitleLen == 3
\* most fragments an asset URL handed to get_hq_url is built from
MaxParts == 3

(***************************************************************************)
(* Strings.                                                                *)
(***************************************************************************)
None == <<"None">>

Truthy(v) == v # None /\ v # <<>>

\* sub in s
Contains(s, sub) ==
    \E i \in 1..(Len(s) - Len(sub) + 1) : SubSeq(s, i, i + Len(sub) - 1) = sub

RECURSIVE Join(_)
Join(parts) == IF parts = <<>> THEN <<>> ELSE Head(parts) \o Join(Tail(parts))

\* s.replace(old, new): every non-overlapping occurrence, left to right
RECURSIVE Replace(_, _, _)
Replace(s, old, new) ==
    IF Len(s) < Len(old) THEN s
    ELSE IF SubSeq(s, 1, Len(old)) = old
         THEN new \o Replace(SubSeq(s, Len(old) + 1, Len(s)), old, new)
         ELSE <<Head(s)>> \o Replace(Tail(s), old, new)

LQ_MARK == <<"-","l","q",".">>
HQ_MARK == <<"-","h","q",".">>

\* get_hq_url with a fault: the hyphen and the period are not part of the marker
get_hq_url_loose(url) == Replace(url, <<"l","q">>, <<"h","q">>)

get_hq_url(url) == Replace(url, LQ_MARK, HQ_MARK)

\* [<>:"/\\|?*]
IllegalChars == {"<", ">", ":", "\"", "/", "\\", "|", "?", "*"}

\* ReSub with a fault: the backslash is missing from the character class
ReSub_NoBackslash(name) ==
    [i \in 1..Len(name) |-> IF name[i] \in IllegalChars \ {"\\"} THEN "_" ELSE name[i]]

\* re.sub(r'[<>:"/\\|?*]', '_', name)
ReSub(name) == [i \in 1..Len(name) |-> IF name[i] \in IllegalChars THEN "_" ELSE name[i]]

RECURSIVE LStrip(_, _)
LStrip(s, chars) ==
    IF s # <<>> /\ Head(s) \in chars THEN LStrip(Tail(s), chars) ELSE s

RECURSIVE RStrip(_, _)
RStrip(s, chars) ==
    IF s # <<>> /\ s[Len(s)] \in chars THEN RStrip(SubSeq(s, 1, Len(s) - 1), chars) ELSE s

\* name.strip(chars)
Strip(s, chars) == RStrip(LStrip(s, chars), chars)

DOWNLOAD == <<"d","o","w","n","l","o","a","d">>

\* sanitize_filename with a fault: spaces become underscores too
sanitize_filename_spaces(name) ==
    LET n1 == [i \in 1..Len(name) |->
                  IF name[i] \in IllegalChars \cup {" "} THEN "_" ELSE name[i]]
        n2 == Strip(n1, {" ", "."})
    IN IF n2 # <<>> THEN n2 ELSE DOWNLOAD

sanitize_filename(name) ==
    LET n1 == ReSub(name)
        n2 == Strip(n1, {" ", "."})
    IN IF n2 # <<>> THEN n2 ELSE DOWNLOAD

(***************************************************************************)
(* urllib.parse.urlparse, as far as main reads its result.                 *)
(***************************************************************************)
Letters ==
    {"a","b","c","d","e","f","g","h","i","j","k","l","m","n","o","p","q","r",
     "s","t","u","v","w","x","y","z","A","B","C","D","E","F","G","H","I","J",
     "K","L","M","N","O","P","Q","R","S","T","U","V","W","X","Y","Z"}

Digits == <<"0","1","2","3","4","5","6","7","8","9">>

DigitSet == {Digits[i] : i \in 1..10}

\* urllib.parse.scheme_chars
SchemeChars == Letters \cup DigitSet \cup {"+", "-", "."}

\* s.find(c) + 1, 0 when c is not in s
Find(s, cs) ==
    IF \E i \in 1..Len(s) : s[i] \in cs
    THEN CHOOSE i \in 1..Len(s) : s[i] \in cs /\ \A j \in 1..(i - 1) : s[j] \notin cs
    ELSE 0

ValueError == [raises |-> "ValueError"]

\* The outcomes of urlparse(url): a parse result (of which main reads netloc),
\* or ValueError for a network location whose brackets do not match.  A
\* bracketed host is validated as an IP literal by newer interpreters only, so
\* both outcomes are possible for it.
urlparse(url) ==
    LET u == LStrip(url, {" "})
        i == Find(u, {":"})
        hasScheme == /\ i > 1
                     /\ u[1] \in Letters
                     /\ \A j \in 1..(i - 1) : u[j] \in SchemeChars
        rest == IF hasScheme THEN SubSeq(u, i + 1, Len(u)) ELSE u
        hasNetloc == Len(rest) >= 2 /\ rest[1] = "/" /\ rest[2] = "/"
        after == SubSeq(rest, 3, Len(rest))
        delim == Find(after, {"/", "?", "#"})
        netloc == IF ~hasNetloc THEN <<>>
                  ELSE IF delim = 0 THEN after
                  ELSE SubSeq(after, 1, delim - 1)
        open == Contains(netloc, <<"[">>)
        close == Contains(netloc, <<"]">>)
        parsed == [raises |-> "", netloc |-> netloc]
    IN IF open # close THEN {ValueError}
       ELSE IF open /\ close THEN {parsed, ValueError}
       ELSE {parsed}

FREESOUND == <<"f","r","e","e","s","o","u","n","d",".","o","r","g">>

\* IsFreesound with a fault: any network location is accepted
IsFreesound_AnyHost(parsed) == parsed.netloc # <<>>

\* 'freesound.org' in parsed.netloc
IsFreesound(parsed) == Contains(parsed.netloc, FREESOUND)

(***************************************************************************)
(* Pages: the elements of the fetched document, in document order.         *)
(***************************************************************************)
MP3_LQ == <<"h","t","t","p","s",":","/","/","c","d","n","/","a","-","l","q",".","m","p","3">>
OGG_LQ == <<"h","t","t","p","s",":","/","/","c","d","n","/","a","-","l","q",".","o","g","g">>
TITLE == <<"T","e","s","t"," ","S","o","u","n","d">>
UNKNOWN == <<"u","n","k","n","o","w","n">>

Elements ==
    { [cls |-> {"bw-player"},
       attrs |-> ("data-mp3" :> MP3_LQ) @@ ("data-ogg" :> OGG_LQ) @@ ("data-title" :> TITLE)
                 @@ ("data-sound-id" :> <<"1">>) @@ ("data-duration" :> <<"1","2",".","5">>)],
      [cls |-> {"bw-player"},
       attrs |-> ("data-mp3" :> MP3_LQ) @@ ("data-title" :> TITLE) @@ ("data-sound-id" :> <<"1">>)],
      [cls |-> {"bw-player", "player"},
       attrs |-> ("data-ogg" :> OGG_LQ) @@ ("data-title" :> TITLE) @@ ("data-sound-id" :> <<"1">>)],
      [cls |-> {"bw-player"},
       attrs |-> ("data-mp3" :> <<>>) @@ ("data-title" :> TITLE) @@ ("data-sound-id" :> <<"1">>)],
      [cls |-> {},
       attrs |-> ("data-mp3" :> MP3_LQ)],
      [cls |-> {"player"},
       attrs |-> ("data-ogg" :> OGG_LQ) @@ ("data-title" :> TITLE)] }

SeqsUpTo(S, n) == UNION {[1..m -> S] : m \in 0..n}

Pages == SeqsUpTo(Elements, MaxElems)

NoTag == [none |-> TRUE]

\* soup.find(class_=c)
find_class(soup, c) ==
    LET hits == {i \in 1..Len(soup) : c \in soup[i].cls}
    IN IF hits = {} THEN NoTag ELSE soup[CHOOSE i \in hits : \A j \in hits : i <= j]

\* find_attrs with a fault: an element with any attribute matches
find_attrs_any(soup, key) ==
    LET hits == {i \in 1..Len(soup) : DOMAIN soup[i].attrs # {}}
    IN IF hits = {} THEN NoTag ELSE soup[CHOOSE i \in hits : \A j \in hits : i <= j]

\* soup.find(attrs={key: True})
find_attrs(soup, key) ==
    LET hits == {i \in 1..Len(soup) : key \in DOMAIN soup[i].attrs}
    IN IF hits = {} THEN NoTag ELSE soup[CHOOSE i \in hits : \A j \in hits : i <= j]

\* tag.get(key, default)
Get(tag, key, default) == IF key \in DOMAIN tag.attrs THEN tag.attrs[key] ELSE default

\* the element extract_sound_info reads the attributes from
Player(soup) ==
    LET player == find_class(soup, "bw-player")
    IN IF player = NoTag THEN find_attrs(soup, "data-mp3") ELSE player

NoInfo == [none |-> TRUE]

Record(url, player) ==
    [url |-> url,
     mp3 |-> Get(player, "data-mp3", None),
     ogg |-> Get(player, "data-ogg", None),
     title |-> Get(player, "data-title", UNKNOWN),
     sound_id |-> Get(player, "data-sound-id", <<>>),
     duration |-> Get(player, "data-duration", <<>>)]

\* extract_sound_info with a fault: the check for the audio URLs is missing
extract_sound_info_unchecked(url, soup) ==
    LET player == Player(soup)
    IN IF player = NoTag
       THEN [ret |-> NoInfo, printed |-> "Error: Could not find audio player on page"]
       ELSE [ret |-> Record(url, player), printed |-> ""]

\* extract_sound_info once the page is fetched: the record or None (NoInfo),
\* and the error it printed
extract_sound_info(url, soup) ==
    LET player == Player(soup)
    IN IF player = NoTag
       THEN [ret |-> NoInfo, printed |-> "Error: Could not find audio player on page"]
       ELSE IF ~Truthy(Get(player, "data-mp3", None)) /\ ~Truthy(Get(player, "data-ogg", None))
            THEN [ret |-> NoInfo, printed |-> "Error: No audio URLs found on page"]
            ELSE [ret |-> Record(url, player), printed |-> ""]

(***************************************************************************)
(* download_file.  A response is what the server and the file system do    *)
(* to one call: requests.get raising or returning a status, the            *)
(* Content-Length header, whether open() succeeds, the chunks iter_content *)
(* yields, and whether the stream breaks after them.                       *)
(***************************************************************************)
bar_len == 30

RECURSIVE Dec(_)
\* str(n)
Dec(n) == IF n < 10 THEN <<Digits[n + 1]>> ELSE Dec(n \div 10) \o <<Digits[(n % 10) + 1]>>

RECURSIVE ParseInt(_, _)
\* int(s) for a string of digits, acc the value of the digits read so far
ParseInt(s, acc) ==
    IF s = <<>> THEN acc
    ELSE ParseInt(Tail(s), 10 * acc + (CHOOSE d \in 0..9 : Digits[d + 1] = Head(s)))

IsInt(s) == s # <<>> /\ \A i \in 1..Len(s) : s[i] \in DigitSet

ContentLengths == {None, <<"x">>} \cup {Dec(n) : n \in 0..MaxTotal}

Statuses == {200, 404, 503}

RECURSIVE Sum(_)
Sum(q) == IF q = <<>> THEN 0 ELSE Head(q) + Sum(Tail(q))

\* the chunk sizes of a body; iter_content may yield an empty chunk
ChunkSeqs == {q \in SeqsUpTo(0..MaxBytes, MaxBytes) : Sum(q) <= MaxBytes}

Responses ==
    {[get |-> "RequestException", status |-> 0, clen |-> None, open |-> "ok",
      chunks |-> <<>>, broken |-> FALSE]}
    \cup [get : {"ok"}, status : Statuses \ {200}, clen : {None}, open : {"ok"},
          chunks : {<<>>}, broken : {FALSE}]
    \cup [get : {"ok"}, status : {200}, clen : {<<"x">>}, open : {"ok"},
          chunks : {<<>>}, broken : {FALSE}]
    \cup [get : {"ok"}, status : {200}, clen : {None}, open : {"OSError"},
          chunks : {<<>>}, broken : {FALSE}]
    \cup [get : {"ok"}, status : {200}, clen : ContentLengths \ {<<"x">>}, open : {"ok"},
          chunks : ChunkSeqs, broken : BOOLEAN]

\* response.raise_for_status() raises
IsHttpError(status) == 400 <= status /\ status < 600

\* '{percent:.1f}', in tenths of a percent
Percent(downloaded, total_size) == (2000 * downloaded + total_size) \div (2 * total_size)

Max(a, b) == IF a >= b THEN a ELSE b

\* the indicator printed after a chunk: the two runs of cells and the percentage
Bar(downloaded, total_size) ==
    LET filled == (bar_len * downloaded) \div total_size
    IN [filled |-> filled, empty |-> Max(0, bar_len - filled),
        percent |-> Percent(downloaded, total_size)]

RECURSIVE iter_content(_, _, _)
\* the loop over the chunks: the bytes written and the indicators printed
iter_content(chunks, downloaded, total_size) ==
    IF chunks = <<>> THEN [downloaded |-> downloaded, progress |-> <<>>]
    ELSE LET chunk == Head(chunks)
             d == IF chunk > 0 THEN downloaded + chunk ELSE downloaded
             r == iter_content(Tail(chunks), d, total_size)
         IN [downloaded |-> r.downloaded,
             progress |-> (IF chunk > 0 /\ total_size > 0
                           THEN <<Bar(d, total_size)>> ELSE <<>>) \o r.progress]

Result(retv, created, body) ==
    [ret |-> retv, created |-> created, size |-> body.downloaded,
     total_size |-> body.total_size, progress |-> body.progress]

NoBody == [downloaded |-> 0, total_size |-> 0, progress |-> <<>>]

\* download_file with a fault: an HTTP error status is not raised
download_file_no_raise(resp) ==
    IF resp.get # "ok" THEN Result("False", FALSE, NoBody)
    ELSE IF resp.clen # None /\ ~IsInt(resp.clen) THEN Result("ValueError", FALSE, NoBody)
    ELSE IF resp.open # "ok" THEN Result("OSError", FALSE, NoBody)
    ELSE LET total_size == IF resp.clen = None THEN 0 ELSE ParseInt(resp.clen, 0)
             body == iter_content(resp.chunks, 0, total_size) @@ [total_size |-> total_size]
         IN Result(IF resp.broken THEN "False" ELSE "True", TRUE, body)

\* download_file(url, output_path) on a response: what it returns ("True",
\* "False") or raises, whether the file was created, and what it printed
download_file(resp) ==
    IF resp.get # "ok" \/ IsHttpError(resp.status) THEN Result("False", FALSE, NoBody)
    ELSE IF resp.clen # None /\ ~IsInt(resp.clen) THEN Result("ValueError", FALSE, NoBody)
    ELSE IF resp.open # "ok" THEN Result("OSError", FALSE, NoBody)
    ELSE LET total_size == IF resp.clen = None THEN 0 ELSE ParseInt(resp.clen, 0)
             body == iter_content(resp.chunks, 0, total_size) @@ [total_size |-> total_size]
         IN Result(IF resp.broken THEN "False" ELSE "True", TRUE, body)

\* what main sees of one call of download_file
Outcome(resp) ==
    LET r == download_file(resp)
    IN [get |-> resp.get, status |-> resp.status, ret |-> r.ret, created |-> r.created]

Outcomes == {Outcome(resp) : resp \in Responses}

(***************************************************************************)
(* main.                                                                   *)
(***************************************************************************)
U_sound == <<"h","t","t","p","s",":","/","/","f","r","e","e","s","o","u","n","d",".","o","r","g","/","p","e","o","p","l","e","/","X","/","s","o","u","n","d","s","/","1","/">>
U_other == <<"h","t","t","p","s",":","/","/","e","x","a","m","p","l","e",".","c","o","m","/","f","r","e","e","s","o","u","n","d",".","o","r","g">>
U_bare == <<"f","r","e","e","s","o","u","n","d",".","o","r","g","/","s","/","1">>
U_broken == <<"h","t","t","p",":","/","/","[","f","r","e","e","s","o","u","n","d",".","o","r","g","/">>

Urls == {U_sound, U_other, U_bare, U_broken}

\* nargs='+': at least one URL
UrlLists == SeqsUpTo(Urls, MaxUrls) \ {<<>>}

Flags == [mp3 : BOOLEAN, ogg : BOOLEAN, hq : BOOLEAN]

NoDownload == [none |-> TRUE]

\* formats_to_download with a fault: the OGG asset stands in for a missing MP3
formats_to_download_fallback(a, i) ==
    (IF a.mp3 /\ Truthy(i.mp3) THEN << <<"mp3", i.mp3>> >>
     ELSE IF a.mp3 /\ Truthy(i.ogg) THEN << <<"ogg", i.ogg>> >> ELSE <<>>)
    \o (IF a.ogg /\ Truthy(i.ogg) THEN << <<"ogg", i.ogg>> >> ELSE <<>>)

\* the list main builds from the flags and the record
formats_to_download(a, i) ==
    (IF a.mp3 /\ Truthy(i.mp3) THEN << <<"mp3", i.mp3>> >> ELSE <<>>)
    \o (IF a.ogg /\ Truthy(i.ogg) THEN << <<"ogg", i.ogg>> >> ELSE <<>>)

Ext(fmt) == IF fmt = "mp3" THEN <<"m","p","3">> ELSE <<"o","g","g">>

\* f"{safe_title}_{info['sound_id']}_{quality}.{fmt}"
Filename(i, hq, fmt) ==
    sanitize_filename(i.title) \o <<"_">> \o i.sound_id \o <<"_">>
    \o (IF hq THEN <<"h","q">> ELSE <<"l","q">>) \o <<".">> \o Ext(fmt)

Idle ==
    /\ args = argv
    /\ idx = 1
    /\ page = None
    /\ info = NoInfo
    /\ formats = <<>>
    /\ k = 0
    /\ success_count = 0
    /\ fail_count = 0
    /\ files = {}
    /\ fetched = {}
    /\ last = NoDownload
    /\ raised = ""
    /\ console = ""

Init ==
    /\ urls \in UrlLists
    /\ argv \in Flags
    /\ pc = "start"
    /\ Idle
    /\ arg = None
    /\ ret = None

\* parse_args up to the counters: MP3 is the default format
Setup ==
    /\ pc = "start"
    /\ args' = [args EXCEPT !.mp3 = IF ~args.mp3 /\ ~args.ogg THEN TRUE ELSE @]
    /\ success_count' = 0
    /\ fail_count' = 0
    /\ pc' = "url"
    /\ UNCHANGED <<urls, argv, idx, page, info, formats, k, files, fetched,
                   last, raised, console, arg, ret>>

\* the head of the loop over the URLs and the validation of the domain
Validate ==
    /\ pc = "url"
    /\ idx <= Len(urls)
    /\ \E parsed \in urlparse(urls[idx]) :
          IF parsed = ValueError
          THEN /\ pc' = "crashed"
               /\ raised' = "ValueError"
               /\ console' = "Traceback"
               /\ UNCHANGED <<idx, fail_count>>
          ELSE IF ~IsFreesound(parsed)
          THEN /\ fail_count' = fail_count + 1
               /\ idx' = idx + 1
               /\ console' = "Skipping: Not a Freesound URL"
               /\ UNCHANGED <<pc, raised>>
          ELSE /\ pc' = "fetch"
               /\ console' = "Processing"
               /\ UNCHANGED <<idx, fail_count, raised>>
    /\ UNCHANGED <<urls, argv, args, page, info, formats, k, success_count,
                   files, fetched, last, arg, ret>>

\* extract_sound_info: the request fails, and main gives the URL up
FetchFails ==
    /\ pc = "fetch"
    /\ fetched' = fetched \cup {idx}
    /\ info' = NoInfo
    /\ fail_count' = fail_count + 1
    /\ idx' = idx + 1
    /\ pc' = "url"
    /\ console' = "Error fetching"
    /\ UNCHANGED <<urls, argv, args, page, formats, k, success_count, files,
                   last, raised, arg, ret>>

\* extract_sound_info: the request returns a page
Fetch ==
    /\ pc = "fetch"
    /\ fetched' = fetched \cup {idx}
    /\ page' \in Pages
    /\ pc' = "parse"
    /\ UNCHANGED <<urls, argv, args, idx, info, formats, k, success_count, fail_count,
                   files, last, raised, console, arg, ret>>

\* extract_sound_info on the page, and main up to the list of formats
Parse ==
    /\ pc = "parse"
    /\ LET r == extract_sound_info(urls[idx], page)
       IN /\ info' = r.ret
          /\ page' = None
          /\ IF r.ret = NoInfo
             THEN /\ fail_count' = fail_count + 1
                  /\ idx' = idx + 1
                  /\ pc' = "url"
                  /\ console' = r.printed
                  /\ UNCHANGED <<formats, k>>
             ELSE /\ formats' = formats_to_download(args, r.ret)
                  /\ k' = 0
                  /\ pc' = "formats"
                  /\ console' = "Title"
                  /\ UNCHANGED <<fail_count, idx>>
    /\ UNCHANGED <<urls, argv, args, success_count, files, fetched, last,
                   raised, arg, ret>>

\* one turn of the loop over the formats: the file name and download_file
Download ==
    /\ pc = "formats"
    /\ k < Len(formats)
    /\ \E r \in Outcomes :
          LET fmt == formats[k + 1][1]
              audio_url == IF args.hq THEN get_hq_url(formats[k + 1][2])
                           ELSE formats[k + 1][2]
              filename == Filename(info, args.hq, fmt)
          IN /\ last' = [fmt |-> fmt, url |-> audio_url, name |-> filename,
                         get |-> r.get, status |-> r.status, ret |-> r.ret]
             /\ files' = IF r.created THEN files \cup {filename} ELSE files
             /\ k' = k + 1
             /\ IF r.ret = "True"
                THEN /\ success_count' = success_count + 1
                     /\ console' = "Saved"
                     /\ UNCHANGED <<fail_count, pc, raised>>
                ELSE IF r.ret = "False"
                THEN /\ fail_count' = fail_count + 1
                     /\ console' = "Error downloading"
                     /\ UNCHANGED <<success_count, pc, raised>>
                ELSE /\ pc' = "crashed"
                     /\ raised' = r.ret
                     /\ console' = "Traceback"
                     /\ UNCHANGED <<success_count, fail_count>>
    /\ UNCHANGED <<urls, argv, args, idx, page, info, formats, fetched, arg, ret>>

\* the loop over the formats is exhausted
FormatsDone ==
    /\ pc = "formats"
    /\ k = Len(formats)
    /\ idx' = idx + 1
    /\ pc' = "url"
    /\ UNCHANGED <<urls, argv, args, page, info, formats, k, success_count,
                   fail_count, files, fetched, last, raised, console, arg, ret>>

\* the loop over the URLs is exhausted: the summary line
Summary ==
    /\ pc = "url"
    /\ idx > Len(urls)
    /\ console' = "Complete!"
    /\ pc' = "done"
    /\ UNCHANGED <<urls, argv, args, idx, page, info, formats, k, success_count,
                   fail_count, files, fetched, last, raised, arg, ret>>

Next ==
    \/ Setup
    \/ Validate
    \/ FetchFails
    \/ Fetch
    \/ Parse
    \/ Download
    \/ FormatsDone
    \/ Summary

Spec == Init /\ [][Next]_vars

(***************************************************************************)
(* The pure functions, each called once on an input drawn from a bounded   *)
(* set.                                                                    *)
(***************************************************************************)
NotRunning ==
    /\ urls = <<>>
    /\ argv = [mp3 |-> FALSE, ogg |-> FALSE, hq |-> FALSE]
    /\ Idle
    /\ pc = "call"
    /\ ret = None

TitleChars == IllegalChars \cup {" ", ".", "_", "a"}

Titles == SeqsUpTo(TitleChars, MaxTitleLen) \cup {TITLE}

InitSanitize == NotRunning /\ arg \in Titles

CallSanitize ==
    /\ pc = "call"
    /\ ret' = sanitize_filename(arg)
    /\ pc' = "return"
    /\ UNCHANGED <<mainVars, arg>>

SpecSanitize == InitSanitize /\ [][CallSanitize]_vars

FOO_LQ == <<".",".",".","/","f","o","o","-","l","q",".","m","p","3">>
FOO_HQ == <<".",".",".","/","f","o","o","-","h","q",".","m","p","3">>

UrlParts == {LQ_MARK, HQ_MARK, <<"-","l">>, <<"q",".">>, <<"l","q">>, <<"a">>, <<"-">>, <<".">>}

AssetUrls == {Join(ps) : ps \in SeqsUpTo(UrlParts, MaxParts)} \cup {FOO_LQ, MP3_LQ, OGG_LQ}

InitHq == NotRunning /\ arg \in AssetUrls

CallHq ==
    /\ pc = "call"
    /\ ret' = get_hq_url(arg)
    /\ pc' = "return"
    /\ UNCHANGED <<mainVars, arg>>

SpecHq == InitHq /\ [][CallHq]_vars

InitDownload == NotRunning /\ arg \in Responses

CallDownload ==
    /\ pc = "call"
    /\ ret' = download_file(arg)
    /\ pc' = "return"
    /\ UNCHANGED <<mainVars, arg>>

SpecDownload == InitDownload /\ [][CallDownload]_vars

(***************************************************************************)
(* Claims.                                                                 *)
(***************************************************************************)
StripChars == {" ", "."}

C9_HqUrl ==
    pc = "return" =>
        /\ ~Contains(arg, LQ_MARK) => ret = arg
        /\ Len(ret) = Len(arg)
        /\ \A i \in 1..Len(arg) :
              ret[i] = IF i >= 2 /\ i + 2 <= Len(arg) /\ SubSeq(arg, i - 1, i + 2) = LQ_MARK
                       THEN "h" ELSE arg[i]
        /\ arg = FOO_LQ => ret = FOO_HQ

C9_Witness ==
    /\ pc = "return"
    /\ arg = FOO_LQ
    /\ ret = FOO_HQ

\* C10: when the server reports a content length greater than zero, the
\* percentage never decreases from one indicator to the next and the filled
\* and unfilled cells of every indicator total exactly 30.
C10_Original ==
    (pc = "return" /\ ret.total_size > 0) =>
        \A i \in 1..Len(ret.progress) :
            /\ ret.progress[i].filled + ret.progress[i].empty = 30
            /\ i > 1 => ret.progress[i].percent >= ret.progress[i - 1].percent

\* C1: a failure while handling a URL (the domain validation, the page fetch,
\* the extraction, or a download failing with a network error, a timeout or an
\* error status) abandons only that URL or that file: the step that fails
\* hands control back to the loop, at the next URL or the next format.
C1_Original ==
    [][ /\ (pc = "url" /\ idx <= Len(urls) /\ pc' # "fetch")
            => (pc' = "url" /\ idx' = idx + 1)
        /\ (pc = "fetch" /\ pc' # "parse")
            => (pc' = "url" /\ idx' = idx + 1)
        /\ (pc = "parse" /\ pc' # "formats")
            => (pc' = "url" /\ idx' = idx + 1)
        /\ (pc = "formats" /\ k' = k + 1 /\ (last'.get # "ok" \/ last'.status >= 400))
            => (pc' = "formats" /\ idx' = idx) ]_vars

Defaults == [mp3 |-> FALSE, ogg |-> FALSE, hq |-> FALSE]

NAME_SPACE == <<"T","e","s","t"," ","S","o","u","n","d","_","1","_","l","q",".","m","p","3">>
NAME_UNDERSCORE == <<"T","e","s","t","_","S","o","u","n","d","_","1","_","l","q",".","m","p","3">>

\* the run of C2: the one URL, the default flags, and the record of a player
\* that exposes data-mp3, data-title and data-sound-id
EndToEnd ==
    /\ urls = <<U_sound>>
    /\ argv = Defaults
    /\ info # NoInfo
    /\ info.mp3 = MP3_LQ
    /\ info.ogg = None
    /\ info.title = TITLE
    /\ info.sound_id = <<"1">>

\* C2, as stated: the run writes exactly one file, Test_Sound_1_lq.mp3.
C2_Original ==
    (EndToEnd /\ pc = "done" /\ success_count = 1) => files = {NAME_UNDERSCORE}

\* C2, amended: the run requests exactly one download, of the MP3 URL, every
\* file it writes is named 'Test Sound_1_lq.mp3' (the space is kept), and
\* when the download succeeds that is the one file written.
C2_EndToEnd ==
    EndToEnd =>
        /\ formats = << <<"mp3", MP3_LQ>> >>
        /\ files \subseteq {NAME_SPACE}
        /\ k = 1 => (last.url = MP3_LQ /\ last.name = NAME_SPACE)
        /\ pc = "done" => k = 1
        /\ success_count <= 1
        /\ success_count = 1 => files = {NAME_SPACE}

C2_Witness ==
    /\ EndToEnd
    /\ pc = "done"
    /\ success_count = 1
    /\ fail_count = 0
    /\ files = {NAME_SPACE}

\* C4: every record extract_sound_info returns has a non-empty MP3 URL or a
\* non-empty OGG URL, and it returns None when the matched player element
\* has neither.
C4_AudioUrl ==
    /\ [](info # NoInfo => (Truthy(info.mp3) \/ Truthy(info.ogg)))
    /\ [][ (/\ pc = "parse"
            /\ pc' # "parse"
            /\ Player(page) # NoTag
            /\ ~Truthy(Get(Player(page), "data-mp3", None))
            /\ ~Truthy(Get(Player(page), "data-ogg", None)))
           => (info' = NoInfo /\ console' = "Error: No audio URLs found on page") ]_vars

C4_Witness ==
    /\ pc = "formats"
    /\ info # NoInfo
    /\ info.mp3 = None
    /\ info.ogg = OGG_LQ

\* the URL parses and its network location does not contain 'freesound.org'
NotFreesound(url) ==
    \A parsed \in urlparse(url) :
        parsed # ValueError /\ ~Contains(parsed.netloc, FREESOUND)

NoPlayer(soup) ==
    \A i \in 1..Len(soup) :
        "bw-player" \notin soup[i].cls /\ "data-mp3" \notin DOMAIN soup[i].attrs

\* C6: on a page with neither a 'bw-player' element nor a 'data-mp3'
\* attribute, extract_sound_info returns no record, and main adds exactly one
\* to the failure counter and attempts no download for that URL.
C6_NoPlayer ==
    [][ (pc = "parse" /\ pc' # "parse" /\ NoPlayer(page))
        => /\ info' = NoInfo
           /\ console' = "Error: Could not find audio player on page"
           /\ fail_count' = fail_count + 1
           /\ success_count' = success_count
           /\ pc' = "url"
           /\ idx' = idx + 1
           /\ UNCHANGED <<formats, k, files, last>> ]_vars

C6_Witness ==
    /\ pc = "url"
    /\ idx = 2
    /\ 1 \in fetched
    /\ info = NoInfo
    /\ console = "Error: Could not find audio player on page"
    /\ fail_count = 1
    /\ last = NoDownload

\* C7: when the server answers a download with an HTTP error status,
\* download_file returns False, main prints no 'Saved' line, the success
\* counter stays and the failure counter goes up by one.
C7_HttpError ==
    [][ (pc = "formats" /\ k' = k + 1 /\ last'.get = "ok" /\ last'.status \in {404, 503})
        => /\ last'.ret = "False"
           /\ console' # "Saved"
           /\ success_count' = success_count
           /\ fail_count' = fail_count + 1
           /\ files' = files ]_vars

C7_Witness ==
    /\ pc = "formats"
    /\ k = 1
    /\ last # NoDownload
    /\ last.status = 404
    /\ last.ret = "False"
    /\ console = "Error downloading"
    /\ success_count = 0
    /\ fail_count = 1

OGG_HQ == <<"h","t","t","p","s",":","/","/","c","d","n","/","a","-","h","q",".","o","g","g">>

\* the record of a page that exposes an OGG URL and no MP3 URL
OggOnly == info # NoInfo /\ ~Truthy(info.mp3) /\ Truthy(info.ogg)

\* C8: for a page that exposes only an OGG URL, main with --mp3 alone attempts
\* no download for the URL, and main with --ogg attempts exactly one, of the
\* OGG asset.
C8_OggOnly ==
    OggOnly =>
        /\ (args.mp3 /\ ~args.ogg) => (formats = <<>> /\ k = 0)
        /\ args.ogg =>
              /\ formats = << <<"ogg", info.ogg>> >>
              /\ k <= 1
              /\ pc \in {"url", "done"} => k = 1
              /\ k = 1 => /\ last.fmt = "ogg"
                          /\ last.url = IF args.hq THEN OGG_HQ ELSE OGG_LQ

C8_Witness ==
    /\ OggOnly
    /\ args.ogg
    /\ pc = "url"
    /\ k = 1
    /\ last.fmt = "ogg"
    /\ last.ret = "True"

====
